---- MODULE Spec2Model ----
(***************************************************************************)
(* PixieZKVM: the static-program table of the VM.                          *)
(*   src/src/vm_specs.rs                  Register, Instruction, Program   *)
(*   src/src/stark_program_instructions.rs  ProgramInstructionsStark       *)
(*                                                                         *)
(* Three specifications share the module's variables:                      *)
(*   InstrSpec  get_opcode / one_hot_encode / one_hot_encode_and_apply     *)
(*              applied to instructions drawn from a bounded set;          *)
(*   Spec       generate_trace on programs drawn from a bounded set, and   *)
(*              eval_packed_generic on the rows of the traces it built;    *)
(*   EvalSpec   eval_packed_generic and eval_ext_circuit on arbitrary      *)
(*              (hand-built) evaluation frames.                            *)
(***************************************************************************)
EXTENDS Integers, Sequences, FiniteSets, TLC

VARIABLES
    insts,          \* the two instructions the instruction functions are applied to
    opcode_ret,     \* opcode_ret[k]: <<>> or <<get_opcode(insts[k])>>
    one_hot_ret,    \* <<>> or <<one_hot_encode(insts[1])>>
    one_hot_f_ret,  \* <<>> or <<one_hot_encode_and_apply(insts[1])>>
    prog,           \* the Program: entry_point, code, memory_init
    code_iter,      \* code_iter[k]: the order in which instance k's code HashMap iterates
    trace,          \* trace[k]: <<>> or <<generate_trace(instance k)>>
    frame,          \* the evaluation frame handed to the constraint evaluation
    yield_constr,   \* the constraints reported to the ConstraintConsumer
    rec_constr,     \* the constraints reported to the RecursiveConstraintConsumer
    ext_ret         \* <<>> or <<outcome of eval_ext_circuit>>

vars == <<insts, opcode_ret, one_hot_ret, one_hot_f_ret, prog, code_iter, trace,
          frame, yield_constr, rec_constr, ext_ret>>

instr_vars == <<insts, opcode_ret, one_hot_ret, one_hot_f_ret>>
trace_vars == <<prog, code_iter, trace>>
eval_vars == <<frame, yield_constr>>
ext_vars == <<rec_constr, ext_ret>>

(***************************************************************************)
(* Bounds of the model.                                                    *)
(***************************************************************************)
\* Operand locations of Jz/Jnz/Lb/Sb are drawn from 0..MaxLoc and the last byte.
MaxLoc == 0
\* Code addresses are drawn from 0..MaxAddr and the last byte.
MaxAddr == 1

U8_MAX == 255

(***************************************************************************)
(* The field F.  The code is generic in F: RichField; the arithmetic the   *)
(* table uses is ZERO, ONE, from_canonical_u8, subtraction and             *)
(* multiplication.  The model takes the smallest prime field that embeds   *)
(* every u8 canonically (the field of the repository's test, Goldilocks,   *)
(* has order 2^64 - 2^32 + 1).                                             *)
(***************************************************************************)
FieldOrder == 257
F == 0..(FieldOrder - 1)
ZERO == 0
ONE == 1
from_canonical_u8(n) == n % FieldOrder
FSub(a, b) == (a - b + FieldOrder) % FieldOrder
FMul(a, b) == (a * b) % FieldOrder

(***************************************************************************)
(* vm_specs.rs: Register, MemoryLocation, InstructionLocation, Instruction *)
(***************************************************************************)
R0 == 0
R1 == 1
Register == {R0, R1}

Locs == (0..MaxLoc) \cup {U8_MAX}
MemoryLocation == Locs
InstructionLocation == Locs

Add(a, b) == <<"Add", a, b>>
Sub(a, b) == <<"Sub", a, b>>
Mul(a, b) == <<"Mul", a, b>>
Div(a, b) == <<"Div", a, b>>
Shl(a, b) == <<"Shl", a, b>>
Shr(a, b) == <<"Shr", a, b>>
Jz(a, l) == <<"Jz", a, l>>
Jnz(a, l) == <<"Jnz", a, l>>
Lb(a, l) == <<"Lb", a, l>>
Sb(a, l) == <<"Sb", a, l>>
Halt == <<"Halt">>

Instruction ==
    {Add(a, b) : a \in Register, b \in Register}
    \cup {Sub(a, b) : a \in Register, b \in Register}
    \cup {Mul(a, b) : a \in Register, b \in Register}
    \cup {Div(a, b) : a \in Register, b \in Register}
    \cup {Shl(a, b) : a \in Register, b \in Register}
    \cup {Shr(a, b) : a \in Register, b \in Register}
    \cup {Jz(a, l) : a \in Register, l \in InstructionLocation}
    \cup {Jnz(a, l) : a \in Register, l \in InstructionLocation}
    \cup {Lb(a, l) : a \in Register, l \in MemoryLocation}
    \cup {Sb(a, l) : a \in Register, l \in MemoryLocation}
    \cup {Halt}

\* The variant (tag) of an instruction.
Variant(inst) == inst[1]

Variants == {"Add", "Sub", "Mul", "Div", "Shl", "Shr", "Jz", "Jnz", "Lb", "Sb", "Halt"}

\* A plausible slip in the opcode table: Sb reuses Lb's id.
get_opcode_dup(inst) ==
    CASE Variant(inst) = "Add" -> 0
      [] Variant(inst) = "Sub" -> 1
      [] Variant(inst) = "Mul" -> 2
      [] Variant(inst) = "Div" -> 3
      [] Variant(inst) = "Shl" -> 4
      [] Variant(inst) = "Shr" -> 5
      [] Variant(inst) = "Jz" -> 6
      [] Variant(inst) = "Jnz" -> 7
      [] Variant(inst) = "Lb" -> 8
      [] Variant(inst) = "Sb" -> 8
      [] Variant(inst) = "Halt" -> 10

get_opcode(inst) ==
    CASE Variant(inst) = "Add" -> 0
      [] Variant(inst) = "Sub" -> 1
      [] Variant(inst) = "Mul" -> 2
      [] Variant(inst) = "Div" -> 3
      [] Variant(inst) = "Shl" -> 4
      [] Variant(inst) = "Shr" -> 5
      [] Variant(inst) = "Jz" -> 6
      [] Variant(inst) = "Jnz" -> 7
      [] Variant(inst) = "Lb" -> 8
      [] Variant(inst) = "Sb" -> 9
      [] Variant(inst) = "Halt" -> 10

\* The width of the one-hot arrays, [u8; 11] and [F; 11], indexed 0..10.
ONE_HOT_LEN == 11

\* A plausible slip: the index is taken one-based.
one_hot_encode_shift(inst) ==
    LET one_hot_enc == [i \in 0..(ONE_HOT_LEN - 1) |-> 0]
    IN  [one_hot_enc EXCEPT ![(get_opcode(inst) + 1) % ONE_HOT_LEN] = 1]

one_hot_encode(inst) ==
    LET one_hot_enc == [i \in 0..(ONE_HOT_LEN - 1) |-> 0]
    IN  [one_hot_enc EXCEPT ![get_opcode(inst)] = 1]

one_hot_encode_and_apply(inst) ==
    LET encode_f == [i \in 0..(ONE_HOT_LEN - 1) |-> ZERO]
    IN  [encode_f EXCEPT ![get_opcode(inst)] = ONE]

(***************************************************************************)
(* InstrSpec: the instruction functions applied to bounded inputs.         *)
(***************************************************************************)
InstrIdle ==
    /\ insts = <<Halt, Halt>>
    /\ opcode_ret = <<<<>>, <<>>>>
    /\ one_hot_ret = <<>>
    /\ one_hot_f_ret = <<>>

InstrInit ==
    /\ insts \in Instruction \X Instruction
    /\ opcode_ret = <<<<>>, <<>>>>
    /\ one_hot_ret = <<>>
    /\ one_hot_f_ret = <<>>

GetOpcode(k) ==
    /\ opcode_ret' = [opcode_ret EXCEPT ![k] = <<get_opcode(insts[k])>>]
    /\ UNCHANGED <<insts, one_hot_ret, one_hot_f_ret, trace_vars, eval_vars, ext_vars>>

OneHotEncode ==
    /\ one_hot_ret' = <<one_hot_encode(insts[1])>>
    /\ UNCHANGED <<insts, opcode_ret, one_hot_f_ret, trace_vars, eval_vars, ext_vars>>

OneHotEncodeAndApply ==
    /\ one_hot_f_ret' = <<one_hot_encode_and_apply(insts[1])>>
    /\ UNCHANGED <<insts, opcode_ret, one_hot_ret, trace_vars, eval_vars, ext_vars>>

(***************************************************************************)
(* vm_specs.rs: Program.  code and memory_init are HashMaps: a map is a    *)
(* function on its key set, and the order in which a given HashMap         *)
(* instance iterates is not determined by its contents (it depends on the  *)
(* instance's hasher seed, capacity and insertion history), so each        *)
(* instance carries its own iteration order, any enumeration of the keys.  *)
(***************************************************************************)
Addrs == (0..MaxAddr) \cup {U8_MAX}

\* The instructions programs are built from.
ProgInsts == {Add(R0, R1), Halt}

EntryPoints == {0, U8_MAX}

EmptyMap == [a \in {} |-> 0]

CodeMaps == UNION {[S -> ProgInsts] : S \in SUBSET Addrs}

MemoryInits == {EmptyMap, [a \in {0} |-> U8_MAX]}

Program == [entry_point : EntryPoints, code : CodeMaps, memory_init : MemoryInits]

\* Program::default(): entry point 0, no code, no memory.
ProgramDefault == [entry_point |-> 0, code |-> EmptyMap, memory_init |-> EmptyMap]

\* The enumerations of a key set: what iter() on a HashMap with these keys can yield.
IterOrders(S) ==
    {o \in [1..Cardinality(S) -> S] : \A i, j \in 1..Cardinality(S) : o[i] = o[j] => i = j}

\* prog.code.iter() of an instance whose map iterates in `order`.
code_iter_pairs(code, order) == [i \in 1..Len(order) |-> <<order[i], code[order[i]]>>]

(***************************************************************************)
(* stark_program_instructions.rs: generate_trace                           *)
(***************************************************************************)
NUMBER_OF_COLS == 3
PUBLIC_INPUTS == 0

\* A plausible slip: the filter of an instruction row is written as its opcode.
trace_row_filter_opcode(pc, inst) ==
    <<from_canonical_u8(pc), from_canonical_u8(get_opcode(inst)),
      from_canonical_u8(get_opcode(inst))>>

\* A plausible slip: the first two columns are swapped.
trace_row_swapped(pc, inst) ==
    <<from_canonical_u8(get_opcode(inst)), from_canonical_u8(pc), ONE>>

\* The closure of the map(): one row per (pc, inst) pair.
trace_row(pc, inst) ==
    <<from_canonical_u8(pc), from_canonical_u8(get_opcode(inst)), ONE>>

RECURSIVE pow2_at_least(_, _)
pow2_at_least(p, n) == IF p >= n THEN p ELSE pow2_at_least(2 * p, n)

\* A plausible slip: one row is always added before rounding up.
next_power_of_two_plus(n) == pow2_at_least(1, n + 1)

\* usize::next_power_of_two: the smallest power of two >= n (1 for n = 0).
next_power_of_two(n) == pow2_at_least(1, n)

\* A plausible slip: the padding is put in front of the rows.
resize_front(v, new_len, value) ==
    IF new_len > Len(v)
    THEN [i \in 1..(new_len - Len(v)) |-> value] \o v
    ELSE SubSeq(v, 1, new_len)

\* Vec::resize: extend with copies of value, or truncate.
resize(v, new_len, value) ==
    IF new_len > Len(v)
    THEN v \o [i \in 1..(new_len - Len(v)) |-> value]
    ELSE SubSeq(v, 1, new_len)

\* starky::util::trace_rows_to_poly_values: one PolynomialValues per column.
trace_rows_to_poly_values(rows) ==
    [c \in 1..NUMBER_OF_COLS |-> [r \in 1..Len(rows) |-> rows[r][c]]]

generate_trace(p, order) ==
    LET pairs == code_iter_pairs(p.code, order)
        rows == [i \in 1..Len(pairs) |-> trace_row(pairs[i][1], pairs[i][2])]
        pow2_len == next_power_of_two(Len(rows))
        padded == resize(rows, pow2_len, <<ZERO, ZERO, ZERO>>)
    IN  trace_rows_to_poly_values(padded)

(***************************************************************************)
(* stark_program_instructions.rs: eval_packed_generic, eval_ext_circuit    *)
(***************************************************************************)
\* A StarkFrame: the local row and the next row.
StarkFrame(local, next) == [local_values |-> local, next_values |-> next]

ZeroFrame == StarkFrame(<<ZERO, ZERO, ZERO>>, <<ZERO, ZERO, ZERO>>)

\* A plausible slip: the opcode column is read instead of the filter column.
eval_packed_generic_col1(fr) ==
    LET local_values == fr.local_values
        filter_column == local_values[2]
    IN  <<FMul(filter_column, FSub(ONE, filter_column))>>

\* The constraints yielded for one frame (columns are 0-based in the code).
eval_packed_generic(fr) ==
    LET local_values == fr.local_values
        filter_column == local_values[3]
    IN  <<FMul(filter_column, FSub(ONE, filter_column))>>

\* A plausible completion of the stub: return without reporting anything.
eval_ext_circuit_silent(fr, consumer) == [outcome |-> "returned", constraints |-> consumer]

\* unimplemented!(): panics before anything else happens.
eval_ext_circuit(fr, consumer) == [outcome |-> "panicked", constraints |-> consumer]

constraint_degree == 3

(***************************************************************************)
(* Spec: generate_trace on two equal Program instances (same entry_point,  *)
(* code and memory_init; each with its own HashMap iteration order), and   *)
(* the constraint evaluated on the rows of the traces.                     *)
(***************************************************************************)
Instances == {1, 2}

TraceIdle ==
    /\ prog = ProgramDefault
    /\ code_iter = <<<<>>, <<>>>>
    /\ trace = <<<<>>, <<>>>>

EvalIdle ==
    /\ frame = ZeroFrame
    /\ yield_constr = <<>>

ExtIdle ==
    /\ rec_constr = <<>>
    /\ ext_ret = <<>>

Init ==
    /\ prog \in Program
    /\ code_iter \in IterOrders(DOMAIN prog.code) \X IterOrders(DOMAIN prog.code)
    /\ trace = <<<<>>, <<>>>>
    /\ EvalIdle
    /\ ExtIdle
    /\ InstrIdle

GenerateTrace(k) ==
    /\ trace' = [trace EXCEPT ![k] = <<generate_trace(prog, code_iter[k])>>]
    /\ UNCHANGED <<prog, code_iter, eval_vars, ext_vars, instr_vars>>

\* The rows of a column-major table.
NumRows(cols) == Len(cols[1])
Row(cols, r) == [c \in 1..NUMBER_OF_COLS |-> cols[c][r]]

\* The constraint evaluated on one row of instance k's trace (next row: cyclic).
EvalTraceRow(k) ==
    /\ trace[k] # <<>>
    /\ \E r \in 1..NumRows(trace[k][1]) :
        LET cols == trace[k][1]
            fr == StarkFrame(Row(cols, r), Row(cols, (r % NumRows(cols)) + 1))
        IN  /\ frame' = fr
            /\ yield_constr' = eval_packed_generic(fr)
    /\ UNCHANGED <<trace_vars, ext_vars, instr_vars>>

Next ==
    \/ \E k \in Instances : GenerateTrace(k)
    \/ \E k \in Instances : EvalTraceRow(k)

Spec == Init /\ [][Next]_vars

(***************************************************************************)
(* InstrSpec                                                               *)
(***************************************************************************)
InstrSpecInit == InstrInit /\ TraceIdle /\ EvalIdle /\ ExtIdle

InstrNext ==
    \/ \E k \in {1, 2} : GetOpcode(k)
    \/ OneHotEncode
    \/ OneHotEncodeAndApply

InstrSpec == InstrSpecInit /\ [][InstrNext]_vars

(***************************************************************************)
(* EvalSpec: the two evaluation paths on arbitrary frames.  The frames are *)
(* hand-built tables of two rows: any field element as filter, opcodes in  *)
(* and out of 0..10, program counters equal, increasing and decreasing.    *)
(***************************************************************************)
PcSample == {0, 1, U8_MAX}
OpcodeSample == {0, 10, 11, FieldOrder - 1}
NextFilterSample == {0, 1}

Frames ==
    {StarkFrame(<<pc, op, f>>, <<npc, 0, nf>>) :
        pc \in PcSample, op \in OpcodeSample, f \in F, npc \in PcSample, nf \in NextFilterSample}

EvalInit ==
    /\ frame \in Frames
    /\ yield_constr = <<>>
    /\ rec_constr \in {<<>>, <<ONE>>}
    /\ ext_ret = <<>>
    /\ TraceIdle
    /\ InstrIdle

\* Once eval_ext_circuit has panicked the evaluation is over.
Aborted == ext_ret # <<>> /\ ext_ret[1] = "panicked"

EvalPackedGeneric ==
    /\ ~Aborted
    /\ yield_constr' = eval_packed_generic(frame)
    /\ UNCHANGED <<frame, ext_vars, trace_vars, instr_vars>>

EvalExtCircuit ==
    /\ ~Aborted
    /\ LET res == eval_ext_circuit(frame, rec_constr)
       IN  /\ ext_ret' = <<res.outcome>>
           /\ rec_constr' = res.constraints
    /\ UNCHANGED <<frame, yield_constr, trace_vars, instr_vars>>

EvalNext ==
    \/ EvalPackedGeneric
    \/ EvalExtCircuit

EvalSpec == EvalInit /\ [][EvalNext]_vars

(***************************************************************************)
(* Properties.  The helpers below read the tables back row by row.         *)
(***************************************************************************)
Generated(k) == trace[k] # <<>>
Cols(k) == trace[k][1]
Rows(k) == [r \in 1..NumRows(Cols(k)) |-> Row(Cols(k), r)]
NumInstructions == Cardinality(DOMAIN prog.code)

IsPowerOfTwo(m) == \E e \in 0..9 : m = 2 ^ e

\* max(1, the smallest power of two >= n), stated without the code's computation.
PaddedLen(n) ==
    CHOOSE m \in 1..(2 * n + 1) :
        /\ IsPowerOfTwo(m)
        /\ m >= n
        /\ \A q \in 1..(m - 1) : ~(IsPowerOfTwo(q) /\ q >= n)

\* C1: the rows with filter = 1 of every generated trace are in strictly
\* ascending order of program_counter, whatever order the code map iterates in.
C1_RowsAscendByAddress ==
    \A k \in Instances :
        Generated(k) =>
            \A i, j \in 1..Len(Rows(k)) :
                (i < j /\ Rows(k)[i][3] = ONE /\ Rows(k)[j][3] = ONE)
                    => Rows(k)[i][1] < Rows(k)[j][1]

\* C2: generate_trace is deterministic: the traces of two equal programs
\* (same entry_point, code and memory_init) are identical.
C2_EqualProgramsEqualTraces ==
    (Generated(1) /\ Generated(2)) => trace[1] = trace[2]

\* C3: a generated trace has exactly 3 columns, each of length
\* max(1, next power of two of |code|); nothing is added when |code| is a power of two.
C3_PaddedShape ==
    \A k \in Instances :
        Generated(k) =>
            /\ Len(Cols(k)) = 3
            /\ \A c \in 1..3 : Len(Cols(k)[c]) = PaddedLen(NumInstructions)
            /\ IsPowerOfTwo(NumInstructions) => NumRows(Cols(k)) = NumInstructions

\* C3 witness: a three-instruction program padded to four rows.
C3_Witness ==
    /\ Generated(1)
    /\ NumInstructions = 3
    /\ NumRows(Cols(1)) = 4

\* C4: the rows with filter = 1 correspond one-to-one to the entries of
\* program.code: each entry (pc, inst) has exactly one row (pc, opcode(inst), 1),
\* every filter = 1 row is the row of an entry, and there are |code| such rows.
C4_InstructionRowsMatchCode ==
    \A k \in Instances :
        Generated(k) =>
            LET rows == Rows(k)
                real == {r \in 1..Len(rows) : rows[r][3] = ONE}
            IN  /\ \A pc \in DOMAIN prog.code :
                    Cardinality({r \in real :
                        rows[r] = <<pc, get_opcode(prog.code[pc]), ONE>>}) = 1
                /\ \A r \in real :
                    Cardinality({pc \in DOMAIN prog.code :
                        rows[r] = <<pc, get_opcode(prog.code[pc]), ONE>>}) = 1
                /\ Cardinality(real) = NumInstructions

\* C4 witness: a generated trace of a program holding both instructions.
C4_Witness ==
    /\ Generated(2)
    /\ NumInstructions >= 2
    /\ \E a, b \in DOMAIN prog.code : prog.code[a] = Halt /\ prog.code[b] = Add(R0, R1)

\* C5: exactly padded_len - |code| rows are padding rows, each (0, 0, 0), and
\* all of them come after every instruction row.
C5_PaddingRowsLast ==
    \A k \in Instances :
        Generated(k) =>
            LET rows == Rows(k)
                pad == {r \in 1..Len(rows) : rows[r][3] # ONE}
            IN  /\ Cardinality(pad) = PaddedLen(NumInstructions) - NumInstructions
                /\ \A r \in pad : rows[r] = <<0, 0, 0>>
                /\ \A r \in pad : \A q \in 1..Len(rows) : rows[q][3] = ONE => q < r

\* C5 witness: a generated trace whose last row is padding after instruction rows.
C5_Witness ==
    /\ Generated(1)
    /\ NumInstructions = 3
    /\ Rows(1)[4] = <<0, 0, 0>>
    /\ Rows(1)[3][3] = ONE

\* C6: every row of every generated trace has filter 0 or 1, and the
\* constraint evaluated on a row of a generated trace is zero.
C6_GeneratedRowsSatisfyConstraint ==
    /\ \A k \in Instances :
        Generated(k) => \A r \in 1..Len(Rows(k)) : Rows(k)[r][3] \in {0, 1}
    /\ \A i \in 1..Len(yield_constr) : yield_constr[i] = 0

\* C6 witness: the constraint was evaluated on an instruction row followed by padding.
C6_Witness ==
    /\ yield_constr = <<0>>
    /\ frame.local_values[3] = ONE
    /\ frame.next_values = <<0, 0, 0>>
    /\ NumInstructions = 3

\* C7: get_opcode maps the 11 variants one-to-one onto 0..10: every id is in
\* 0..10, two instructions get the same id exactly when they are of the same
\* variant (whatever their operands), and every id in 0..10 is used.
C7_OpcodeBijection ==
    /\ \A k \in {1, 2} : opcode_ret[k] # <<>> => opcode_ret[k][1] \in 0..10
    /\ (opcode_ret[1] # <<>> /\ opcode_ret[2] # <<>>) =>
            (opcode_ret[1] = opcode_ret[2] <=> Variant(insts[1]) = Variant(insts[2]))
    /\ \A id \in 0..10 : \E inst \in Instruction : get_opcode(inst) = id
    /\ Cardinality({Variant(inst) : inst \in Instruction}) = 11

\* C7 witness: two instructions of one variant with different operands got one id.
C7_Witness ==
    /\ opcode_ret[1] # <<>>
    /\ opcode_ret[2] # <<>>
    /\ Variant(insts[1]) = "Sb"
    /\ Variant(insts[2]) = "Sb"
    /\ insts[1] # insts[2]

\* C8: one_hot_encode returns 11 entries, exactly one of them 1 and the
\* others 0, the 1 at index get_opcode(inst); one_hot_encode_and_apply
\* returns the same pattern in field one and field zero.
C8_OneHotRoundTrip ==
    /\ one_hot_ret # <<>> =>
        LET v == one_hot_ret[1]
        IN  /\ DOMAIN v = 0..10
            /\ \A i \in 0..10 : v[i] = IF i = get_opcode(insts[1]) THEN 1 ELSE 0
            /\ Cardinality({i \in 0..10 : v[i] = 1}) = 1
    /\ one_hot_f_ret # <<>> =>
        LET w == one_hot_f_ret[1]
        IN  /\ DOMAIN w = 0..10
            /\ \A i \in 0..10 : w[i] = IF i = get_opcode(insts[1]) THEN ONE ELSE ZERO
    /\ (one_hot_ret # <<>> /\ opcode_ret[1] # <<>>) => one_hot_ret[1][opcode_ret[1][1]] = 1

\* C8 witness: both encodings and the opcode of a Halt (the last slot) were computed.
C8_Witness ==
    /\ one_hot_ret # <<>>
    /\ one_hot_f_ret # <<>>
    /\ opcode_ret[1] # <<>>
    /\ insts[1] = Halt

\* C9: eval_packed_generic reports the single constraint filter * (1 - filter)
\* over column 2 of the local row: it is zero exactly when filter is 0 or 1,
\* whatever the program_counter and opcode columns and the next row hold.
C9_ConstraintIsFilterBooleanity ==
    yield_constr # <<>> =>
        LET f == frame.local_values[3]
        IN  /\ Len(yield_constr) = 1
            /\ yield_constr[1] = (f * (FieldOrder + 1 - f)) % FieldOrder
            /\ yield_constr[1] = 0 <=> f \in {0, 1}

\* C9 witness: a row with an opcode outside 0..10 and a program counter that
\* does not increase is accepted because its filter is 1.
C9_Witness ==
    /\ yield_constr = <<0>>
    /\ frame.local_values[3] = 1
    /\ frame.local_values[2] \notin 0..10
    /\ frame.next_values[1] <= frame.local_values[1]

\* C10: every call of eval_ext_circuit panics: it never returns normally and
\* leaves the recursive constraint consumer as it found it.
C10_ExtCircuitAlwaysPanics ==
    [][ (ext_ret' # <<>>) => (ext_ret' = <<"panicked">> /\ rec_constr' = rec_constr) ]_vars

\* C10 witness: eval_ext_circuit was called with a consumer already holding a constraint.
C10_Witness ==
    /\ ext_ret = <<"panicked">>
    /\ rec_constr = <<ONE>>
    /\ yield_constr # <<>>

====
